---- MODULE Spec2Model ----
(***************************************************************************)
(* A model of whatsapp_group_analyser.py (src/script.py): the main loop    *)
(* that classifies every transcript line and folds it into the counters,   *)
(* followed by the reporting section.                                      *)
(*                                                                         *)
(* A Python str is a sequence of characters; a character is a one-letter   *)
(* TLA+ string, except that a non-ASCII character is named by its code     *)
(* point ("U+1F600").  A Python dict / Counter / defaultdict is an         *)
(* insertion-ordered sequence of <<key, value>> pairs.  A datetime is the  *)
(* tuple <<year, month, day, hour, minute>>.                               *)
(***************************************************************************)
EXTENDS Integers, Sequences, FiniteSets

\* ------------------------------------------------------------------------
\* Characters and str methods
\* ------------------------------------------------------------------------

UpperLetters == <<"A","B","C","D","E","F","G","H","I","J","K","L","M",
                  "N","O","P","Q","R","S","T","U","V","W","X","Y","Z">>

LowerLetters == <<"a","b","c","d","e","f","g","h","i","j","k","l","m",
                  "n","o","p","q","r","s","t","u","v","w","x","y","z">>

Digits == <<"0","1","2","3","4","5","6","7","8","9">>

Range(s) == {s[i] : i \in DOMAIN s}

IsDigit(c) == c \in Range(Digits)

\* int() of one decimal digit
DigitVal(c) == (CHOOSE i \in DOMAIN Digits : Digits[i] = c) - 1

\* \s of the re module, over the characters of the model
IsSpace(c) == c = " "

\* \w of the re module without "_" (the complement of [\W_])
IsWordChar(c) == c \in Range(UpperLetters) \cup Range(LowerLetters) \cup Range(Digits)

\* str.lower() on one character
LowerChar(c) ==
    IF c \in Range(UpperLetters)
    THEN LowerLetters[CHOOSE i \in DOMAIN UpperLetters : UpperLetters[i] = c]
    ELSE c

\* str.lower()
Lower(s) == [i \in DOMAIN s |-> LowerChar(s[i])]

\* s[i:].startswith(pat), i counted from 1
StartsAt(s, pat, i) ==
    /\ i >= 1
    /\ i + Len(pat) - 1 <= Len(s)
    /\ SubSeq(s, i, i + Len(pat) - 1) = pat

\* str.find(pat) + 1: the first position where pat occurs in s, 0 when none
Find(s, pat) ==
    LET I == {i \in 1..Len(s) : StartsAt(s, pat, i)}
    IN  IF I = {} THEN 0 ELSE CHOOSE i \in I : \A j \in I : i <= j

\* pat in s
Contains(s, pat) == Find(s, pat) # 0

\* s.split(pat, 1)[0] and s.split(pat, 1)[1], for a pat that occurs in s
SplitHead(s, pat) == SubSeq(s, 1, Find(s, pat) - 1)

SplitTail(s, pat) == SubSeq(s, Find(s, pat) + Len(pat), Len(s))

\* str.strip()
Strip(s) ==
    LET K == {i \in DOMAIN s : ~IsSpace(s[i])}
    IN  IF K = {} THEN << >>
        ELSE SubSeq(s, CHOOSE i \in K : \A j \in K : i <= j,
                       CHOOSE i \in K : \A j \in K : i >= j)

\* The maximal runs of the characters of s whose mask entry is TRUE, in order
RECURSIVE Runs(_, _, _, _)
Runs(s, mask, i, cur) ==
    IF i > Len(s)
    THEN IF cur = << >> THEN << >> ELSE <<cur>>
    ELSE IF mask[i]
         THEN Runs(s, mask, i + 1, Append(cur, s[i]))
         ELSE (IF cur = << >> THEN << >> ELSE <<cur>>) \o Runs(s, mask, i + 1, << >>)

\* str.split(): the maximal runs of non-whitespace
SplitWs(s) == Runs(s, [i \in DOMAIN s |-> ~IsSpace(s[i])], 1, << >>)

\* ------------------------------------------------------------------------
\* parse_timestamp: datetime.strptime over the four formats
\* ------------------------------------------------------------------------

\* A format as strptime compiles it: a directive, "ws" for the \s+ that a
\* blank of the format becomes, or a literal character.
FMT_MDY_12 == <<"%m", "/", "%d", "/", "%y", ",", "ws", "%I", ":", "%M", "ws", "%p">>

FMT_DMY_12 == <<"%d", "/", "%m", "/", "%y", ",", "ws", "%I", ":", "%M", "ws", "%p">>

FMT_MDY_24 == <<"%m", "/", "%d", "/", "%y", ",", "ws", "%H", ":", "%M">>

FMT_DMY_24 == <<"%d", "/", "%m", "/", "%y", ",", "ws", "%H", ":", "%M">>

\* formats, in the order parse_timestamp tries them
formats == <<FMT_MDY_12, FMT_DMY_12, FMT_MDY_24, FMT_DMY_24>>

Directives == {"%m", "%d", "%y", "%I", "%H", "%M", "%p"}

DigitAt(s, i) == i >= 1 /\ i <= Len(s) /\ IsDigit(s[i])

\* the value of the two digits at i, i+1 (-1 when they are not two digits)
TwoDigits(s, i) ==
    IF DigitAt(s, i) /\ DigitAt(s, i + 1)
    THEN 10 * DigitVal(s[i]) + DigitVal(s[i + 1])
    ELSE -1

\* the length of the run of whitespace that starts at i
RECURSIVE SpaceRun(_, _)
SpaceRun(s, i) == IF i <= Len(s) /\ IsSpace(s[i]) THEN 1 + SpaceRun(s, i + 1) ELSE 0

\* n, n-1, ..., 1: the lengths a greedy \s+ tries
RECURSIVE CountDown(_)
CountDown(n) == IF n <= 0 THEN << >> ELSE <<n>> \o CountDown(n - 1)

\* The lengths of the text that token tok can match at position i of s, in
\* the order the regular expression of the token tries its alternatives:
\*   %m, %I  1[0-2]|0[1-9]|[1-9]          %d  3[0-1]|[1-2]\d|0[1-9]|[1-9]| [1-9]
\*   %H      2[0-3]|[0-1]\d|\d            %M  [0-5]\d|\d
\*   %y      \d\d                         %p  am|pm (IGNORECASE)
Alternatives(tok, s, i) ==
    LET two == TwoDigits(s, i)
        one == IF DigitAt(s, i) THEN DigitVal(s[i]) ELSE -1
        If(c, n) == IF c THEN <<n>> ELSE << >>
    IN  CASE tok \in {"%m", "%I"} ->
               If(two \in 10..12 \/ (two \in 1..9), 2) \o If(one \in 1..9, 1)
          [] tok = "%d" ->
               If(two \in 1..31, 2) \o If(one \in 1..9, 1)
               \o If(i + 1 <= Len(s) /\ s[i] = " " /\ DigitAt(s, i + 1)
                     /\ DigitVal(s[i + 1]) \in 1..9, 2)
          [] tok = "%H" -> If(two \in 0..23, 2) \o If(one \in 0..9, 1)
          [] tok = "%M" -> If(two \in 0..59, 2) \o If(one \in 0..9, 1)
          [] tok = "%y" -> If(two \in 0..99, 2)
          [] tok = "%p" ->
               If(i + 1 <= Len(s) /\ Lower(SubSeq(s, i, i + 1)) \in {<<"a", "m">>, <<"p", "m">>}, 2)
          [] tok = "ws" -> CountDown(SpaceRun(s, i))
          [] OTHER -> If(i <= Len(s) /\ s[i] = tok, 1)

\* int() of the matched text of a directive (int() skips the blank of " 4");
\* for %p, 0 for am and 1 for pm
FieldValue(tok, txt) ==
    IF tok = "%p" THEN (IF LowerChar(txt[1]) = "p" THEN 1 ELSE 0)
    ELSE IF Len(txt) = 1 THEN DigitVal(txt[1])
    ELSE IF txt[1] = " " THEN DigitVal(txt[2])
    ELSE 10 * DigitVal(txt[1]) + DigitVal(txt[2])

NoMatch == [ok |-> FALSE, end |-> 0, val |-> << >>]

\* re.match of the compiled format on s: the first match in backtracking
\* order. val lists the values of the matched tokens (0 for a non-directive).
RECURSIVE ReMatch(_, _, _, _, _)
RECURSIVE TryAlternatives(_, _, _, _, _, _)
ReMatch(fmt, k, s, i, val) ==
    IF k > Len(fmt)
    THEN [ok |-> TRUE, end |-> i, val |-> val]
    ELSE TryAlternatives(fmt, k, s, i, val, Alternatives(fmt[k], s, i))

TryAlternatives(fmt, k, s, i, val, alts) ==
    IF alts = << >>
    THEN NoMatch
    ELSE LET n == Head(alts)
             v == IF fmt[k] \in Directives
                  THEN FieldValue(fmt[k], SubSeq(s, i, i + n - 1))
                  ELSE 0
             r == ReMatch(fmt, k + 1, s, i + n, Append(val, v))
         IN  IF r.ok THEN r ELSE TryAlternatives(fmt, k, s, i, val, Tail(alts))

\* the value strptime found for directive tok (-1 when the format lacks it)
Found(fmt, val, tok) ==
    IF \E k \in DOMAIN fmt : fmt[k] = tok
    THEN val[CHOOSE k \in DOMAIN fmt : fmt[k] = tok]
    ELSE -1

IsLeap(y) == (y % 4 = 0) /\ ((y % 100 # 0) \/ (y % 400 = 0))

DaysInMonth(y, m) ==
    IF m = 2 THEN (IF IsLeap(y) THEN 29 ELSE 28)
    ELSE IF m \in {4, 6, 9, 11} THEN 30 ELSE 31

\* parse_timestamp returns None
NoneDt == << >>

\* datetime.strptime(s, fmt), NoneDt standing for ValueError: the data does
\* not match, unconverted data remains, or the day is out of range
Strptime(s, fmt) ==
    LET r == ReMatch(fmt, 1, s, 1, << >>)
    IN  IF ~r.ok \/ r.end # Len(s) + 1
        THEN NoneDt
        ELSE LET y     == Found(fmt, r.val, "%y")
                 year  == IF y <= 68 THEN 2000 + y ELSE 1900 + y
                 month == Found(fmt, r.val, "%m")
                 day   == Found(fmt, r.val, "%d")
                 h12   == Found(fmt, r.val, "%I")
                 pm    == Found(fmt, r.val, "%p") = 1
                 hour  == IF h12 = -1 THEN Found(fmt, r.val, "%H")
                          ELSE IF pm THEN (IF h12 = 12 THEN 12 ELSE h12 + 12)
                          ELSE (IF h12 = 12 THEN 0 ELSE h12)
             IN  IF day > DaysInMonth(year, month)
                 THEN NoneDt
                 ELSE <<year, month, day, hour, Found(fmt, r.val, "%M")>>

RECURSIVE TryFormats(_, _)
TryFormats(s, k) ==
    IF k > Len(formats) THEN NoneDt
    ELSE LET dt == Strptime(s, formats[k])
         IN  IF dt # NoneDt THEN dt ELSE TryFormats(s, k + 1)

parse_timestamp(raw_ts) == TryFormats(Strip(raw_ts), 1)

\* the fields of a datetime
Year(dt) == dt[1]

Month(dt) == dt[2]

Day(dt) == dt[3]

Hour(dt) == dt[4]

Minute(dt) == dt[5]

\* dt1 < dt2 on datetimes
DtLess(a, b) ==
    \E k \in 1..5 : a[k] < b[k] /\ \A j \in 1..(k - 1) : a[j] = b[j]

\* ------------------------------------------------------------------------
\* format_jalali_date
\* ------------------------------------------------------------------------

\* "%0wd" % n
RECURSIVE Pad(_, _)
Pad(n, w) == IF w = 0 THEN << >> ELSE Pad(n \div 10, w - 1) \o <<Digits[(n % 10) + 1]>>

\* strftime("%Y/%m/%d") of a date (datetime.strftime and jdatetime's alike)
StrfYmd(y, m, d) == Pad(y, 4) \o <<"/">> \o Pad(m, 2) \o <<"/">> \o Pad(d, 2)

\* date.toordinal(): the day number, 1 for 0001-01-01
RECURSIVE DaysBeforeMonth(_, _)
DaysBeforeMonth(y, m) == IF m = 1 THEN 0 ELSE DaysBeforeMonth(y, m - 1) + DaysInMonth(y, m - 1)

ToOrdinal(y, m, d) ==
    (y - 1) * 365 + ((y - 1) \div 4) - ((y - 1) \div 100) + ((y - 1) \div 400)
    + DaysBeforeMonth(y, m) + d

\* datetime.weekday(): Monday = 0 .. Sunday = 6
PyWeekday(dt) == (ToOrdinal(Year(dt), Month(dt), Day(dt)) + 6) % 7

\* g2j: jdatetime.date.fromgregorian(date=dt.date()), as <<jy, jm, jd>>
\* (the library's conversion, for the years 1969..2068 that %y yields)
g2j(dt) ==
    LET gy   == Year(dt) - 1600
        gy2  == IF Month(dt) > 2 THEN gy + 1 ELSE gy
        d0   == 365 * gy + ((gy2 + 3) \div 4) - ((gy2 + 99) \div 100)
                + ((gy2 + 399) \div 400) - 80 + Day(dt)
                + (DaysBeforeMonth(1, Month(dt)))
        jy0  == 979 + 33 * (d0 \div 12053)
        d1   == d0 % 12053
        jy1  == jy0 + 4 * (d1 \div 1461)
        d2   == d1 % 1461
        jy   == IF d2 > 365 THEN jy1 + ((d2 - 1) \div 365) ELSE jy1
        days == IF d2 > 365 THEN (d2 - 1) % 365 ELSE d2
    IN  IF days < 186
        THEN <<jy, 1 + (days \div 31), 1 + (days % 31)>>
        ELSE <<jy, 7 + ((days - 186) \div 30), 1 + ((days - 186) % 30)>>

\* jdatetime.date.weekday(): Saturday = 0 .. Friday = 6
JalaliWeekday(dt) == (PyWeekday(dt) + 2) % 7

\* line 136: the Monday-first weekday remapped to Saturday = 0
FallbackWeekdayIdx(py_weekday) == (py_weekday + 2) % 7

\* format_jalali_date(dt): date label, weekday_idx (0-6), month (1-12);
\* has_jdatetime is "jdatetime is not None"
format_jalali_date(dt, has_jdatetime) ==
    IF ~has_jdatetime
    THEN [label   |-> StrfYmd(Year(dt), Month(dt), Day(dt)),
          weekday |-> FallbackWeekdayIdx(PyWeekday(dt)),
          month   |-> Month(dt)]
    ELSE LET jd == g2j(dt)
         IN  [label   |-> StrfYmd(jd[1], jd[2], jd[3]),
              weekday |-> JalaliWeekday(dt),
              month   |-> jd[2]]

\* ------------------------------------------------------------------------
\* The literals and the two regular expressions
\* ------------------------------------------------------------------------

\* " - "
SEP == <<" ", "-", " ">>

\* ":"
COLON == <<":">>

\* "<Media omitted>"
MEDIA_TAG == <<"<","M","e","d","i","a"," ","o","m","i","t","t","e","d",">">>

\* "This message was deleted"
DELETED_TAG == <<"T","h","i","s"," ","m","e","s","s","a","g","e"," ","w","a","s"," ","d","e","l","e","t","e","d">>

\* str used for a Python None where a str is expected
NoneStr == <<"None">>

\* "(unnamed)"
UNNAMED == <<"(","u","n","n","a","m","e","d",")">>

\* " created group " and " created this group ", the fixed part of RE_CREATED
CREATED_MARKERS == <<<<" ","c","r","e","a","t","e","d"," ","g","r","o","u","p"," ">>,
                     <<" ","c","r","e","a","t","e","d"," ","t","h","i","s"," ","g","r","o","u","p"," ">>>>

\* the marker of RE_CREATED that matches at position p of the lower-cased s,
\* 0 when none does: the alternation tries "group" before "this group"
CreatedMarkerAt(s, p) ==
    IF StartsAt(s, CREATED_MARKERS[1], p) THEN 1
    ELSE IF StartsAt(s, CREATED_MARKERS[2], p) THEN 2
    ELSE 0

\* RE_CREATED.match(content):
\*     (.+?) created (?:group|this group) "?(.*?)"?$      (re.I)
\* The lazy (.+?) stops at the first marker that leaves it one character or
\* more; "?(.*?)"?$ then matches whatever follows, the name being the rest
\* without one leading and one trailing quote.  ok is "m is not None".
RE_CREATED_match(content) ==
    LET low == Lower(content)
        P   == {p \in 2..Len(content) : CreatedMarkerAt(low, p) # 0}
    IN  IF P = {}
        THEN [ok |-> FALSE, g1 |-> << >>, g2 |-> << >>]
        ELSE LET p    == CHOOSE q \in P : \A r \in P : q <= r
                 mk   == CREATED_MARKERS[CreatedMarkerAt(low, p)]
                 rest == SubSeq(content, p + Len(mk), Len(content))
                 r1   == IF rest # << >> /\ Head(rest) = "\"" THEN Tail(rest) ELSE rest
                 r2   == IF r1 # << >> /\ r1[Len(r1)] = "\""
                         THEN SubSeq(r1, 1, Len(r1) - 1) ELSE r1
             IN  [ok |-> TRUE, g1 |-> SubSeq(content, 1, p - 1), g2 |-> r2]

\* the fixed parts of RE_GROUP_RENAME
\* " changed the group name from \""
RENAME_FROM == <<" ","c","h","a","n","g","e","d"," ","t","h","e"," ","g","r","o","u","p"," ","n","a","m","e"," ","f","r","o","m"," ","\"">>

\* "\" to \""
RENAME_TO == <<"\""," ","t","o"," ","\"">>

\* RE_GROUP_RENAME.match(raw):
\*     ^(.*?) - (.+?) changed the group name from "(.+?)" to "(.+?)"   (re.I)
\* a, b, c, d are the positions of " - ", of " changed ...", of "\" to \""
\* and of the closing quote; each lazy group takes the first position from
\* which the rest of the pattern can still match.
RE_GROUP_RENAME_match(raw) ==
    LET low == Lower(raw)
        n   == Len(raw)
        Min(S) == CHOOSE x \in S : \A y \in S : x <= y
        Ds(c) == {d \in (c + Len(RENAME_TO) + 1)..n : raw[d] = "\""}
        Cs(b) == {c \in (b + Len(RENAME_FROM) + 1)..n :
                     StartsAt(low, RENAME_TO, c) /\ Ds(c) # {}}
        Bs(a) == {b \in (a + Len(SEP) + 1)..n :
                     StartsAt(low, RENAME_FROM, b) /\ Cs(b) # {}}
        As    == {a \in 1..n : StartsAt(raw, SEP, a) /\ Bs(a) # {}}
    IN  IF As = {}
        THEN [ok |-> FALSE, ts_raw |-> << >>, changer |-> << >>,
              old_name |-> << >>, new_name |-> << >>]
        ELSE LET a == Min(As)
                 b == Min(Bs(a))
                 c == Min(Cs(b))
                 d == Min(Ds(c))
             IN  [ok       |-> TRUE,
                  ts_raw   |-> SubSeq(raw, 1, a - 1),
                  changer  |-> SubSeq(raw, a + Len(SEP), b - 1),
                  old_name |-> SubSeq(raw, b + Len(RENAME_FROM), c - 1),
                  new_name |-> SubSeq(raw, c + Len(RENAME_TO), d - 1)]

\* ------------------------------------------------------------------------
\* dict, defaultdict and Counter: insertion-ordered <<key, value>> pairs
\* ------------------------------------------------------------------------

HasKey(d, k) == \E i \in DOMAIN d : d[i][1] = k

\* d[k], for a key of d
Get(d, k) == d[CHOOSE i \in DOMAIN d : d[i][1] = k][2]

\* d[k] = v
Put(d, k, v) ==
    IF HasKey(d, k)
    THEN [d EXCEPT ![CHOOSE i \in DOMAIN d : d[i][1] = k] = <<k, v>>]
    ELSE Append(d, <<k, v>>)

\* c[k] of a Counter or defaultdict(int): 0 for a missing key
Count(c, k) == IF HasKey(c, k) THEN Get(c, k) ELSE 0

\* c[k] += 1
Inc(c, k) == Put(c, k, Count(c, k) + 1)

\* Counter.update(iterable)
RECURSIVE CounterUpdate(_, _)
CounterUpdate(c, items) ==
    IF items = << >> THEN c ELSE CounterUpdate(Inc(c, Head(items)), Tail(items))

\* sum(c.values())
RECURSIVE SumValues(_)
SumValues(c) == IF c = << >> THEN 0 ELSE Head(c)[2] + SumValues(Tail(c))

Keys(d) == {d[i][1] : i \in DOMAIN d}

\* ------------------------------------------------------------------------
\* The user-message branch of the main loop
\* ------------------------------------------------------------------------

\* the default of user_stats (lines 72-81)
NewUserStats ==
    [messages |-> 0, media |-> 0, deleted |-> 0, bad_word |-> 0,
     char_sum |-> 0, word_sum |-> 0, first_ts |-> NoneDt, last_ts |-> NoneDt]

\* UserStatsOf that starts every message from a fresh record
UserStatsOfFresh(user_stats, sender) == NewUserStats

\* user_stats[sender] of the defaultdict
UserStatsOf(user_stats, sender) ==
    IF HasKey(user_stats, sender) THEN Get(user_stats, sender) ELSE NewUserStats

\* line 144: " - " in raw
HasSeparator(raw) == Contains(raw, SEP)

\* line 158: ":" in content
HasColon(content) == Contains(content, COLON)

\* EmptySenderSkips without the check
EmptySenderNeverSkips(sender) == FALSE

\* lines 162-163: if not sender: continue
EmptySenderSkips(sender) == sender = << >>

\* FirstTs as the earliest timestamp
FirstTsEarliest(first_ts, dt) ==
    IF first_ts = NoneDt \/ (\E k \in 1..5 : dt[k] < first_ts[k] /\ \A j \in 1..(k - 1) : dt[j] = first_ts[j])
    THEN dt ELSE first_ts

\* line 169: s["first_ts"] or dt  (a datetime is always true)
FirstTs(first_ts, dt) == IF first_ts # NoneDt THEN first_ts ELSE dt

\* line 170: s["last_ts"] = dt
LastTs(last_ts, dt) == dt

\* line 172: MEDIA_TAG in message
IsMedia(message) == Contains(message, MEDIA_TAG)

\* line 175: DELETED_TAG.lower() in message.lower()
IsDeleted(message) == Contains(Lower(message), Lower(DELETED_TAG))

\* line 177: bad_words and any(bw in message for bw in bad_words)
HasBadWord(message, bad_words) ==
    bad_words # {} /\ \E bw \in bad_words : Contains(message, bw)

\* UpdateUserStats with char_sum fed the word count
UpdateUserStatsCharsAsWords(s, dt, message, bad_words) ==
    [messages |-> s.messages + 1,
     char_sum |-> s.char_sum + Len(SplitWs(message)),
     word_sum |-> s.word_sum + Len(SplitWs(message)),
     first_ts |-> FirstTs(s.first_ts, dt),
     last_ts  |-> LastTs(s.last_ts, dt),
     media    |-> IF IsMedia(message) THEN s.media + 1 ELSE s.media,
     deleted  |-> IF IsDeleted(message) THEN s.deleted + 1 ELSE s.deleted,
     bad_word |-> IF HasBadWord(message, bad_words) THEN s.bad_word + 1 ELSE s.bad_word]

\* UpdateUserStats without the media count of the user
UpdateUserStatsForgetsMedia(s, dt, message, bad_words) ==
    [messages |-> s.messages + 1,
     char_sum |-> s.char_sum + Len(message),
     word_sum |-> s.word_sum + Len(SplitWs(message)),
     first_ts |-> FirstTs(s.first_ts, dt),
     last_ts  |-> LastTs(s.last_ts, dt),
     media    |-> s.media,
     deleted  |-> IF IsDeleted(message) THEN s.deleted + 1 ELSE s.deleted,
     bad_word |-> IF HasBadWord(message, bad_words) THEN s.bad_word + 1 ELSE s.bad_word]

\* lines 166-178: the record of the sender after the message
UpdateUserStats(s, dt, message, bad_words) ==
    [messages |-> s.messages + 1,
     char_sum |-> s.char_sum + Len(message),
     word_sum |-> s.word_sum + Len(SplitWs(message)),
     first_ts |-> FirstTs(s.first_ts, dt),
     last_ts  |-> LastTs(s.last_ts, dt),
     media    |-> IF IsMedia(message) THEN s.media + 1 ELSE s.media,
     deleted  |-> IF IsDeleted(message) THEN s.deleted + 1 ELSE s.deleted,
     bad_word |-> IF HasBadWord(message, bad_words) THEN s.bad_word + 1 ELSE s.bad_word]

\* re.sub(r"[\W_]+", " ", message): every run of non-word characters
\* becomes one blank
RECURSIVE SubNonWord(_, _)
SubNonWord(s, i) ==
    IF i > Len(s) THEN << >>
    ELSE IF IsWordChar(s[i]) THEN <<s[i]>> \o SubNonWord(s, i + 1)
    ELSE IF i > 1 /\ ~IsWordChar(s[i - 1]) THEN SubNonWord(s, i + 1)
    ELSE <<" ">> \o SubNonWord(s, i + 1)

\* lines 181-182: the words of the message that are no stop words
Words(message, stop_words) ==
    SelectSeq(SplitWs(Lower(SubNonWord(message, 1))), LAMBDA w : w \notin stop_words)

\* the code point of a character the model does not write in ASCII
CodePoint(c) ==
    CASE c = "U+1F600" -> 128512
      [] c = "U+2764"  -> 10084
      [] OTHER         -> 0

\* ch in emoji.EMOJI_DATA, for the characters of the model
InEmojiData(c) == c \in {"U+1F600", "U+2764"}

\* EMOJI_PATTERN: [\U0001F300-\U0001FAFF]
MatchesEmojiPattern(c) == CodePoint(c) >= 127744 /\ CodePoint(c) <= 129791

\* lines 186-189: emoji_list; has_emoji is the truth of the emoji module
EmojiList(message, has_emoji) ==
    IF has_emoji
    THEN SelectSeq(message, InEmojiData)
    ELSE SelectSeq(message, MatchesEmojiPattern)

\* ------------------------------------------------------------------------
\* The system-message branch of the main loop
\* ------------------------------------------------------------------------

\* line 107
NoGroupInfo == [created_ts |-> NoneStr, created_by |-> NoneStr, created_name |-> NoneStr]

\* UpdateGroupInfo that keeps a record already set
UpdateGroupInfoOnce(group_info, date_label, m) ==
    IF group_info.created_ts # NoneStr
    THEN group_info
    ELSE [created_ts   |-> date_label,
          created_by   |-> Strip(m.g1),
          created_name |-> IF Strip(m.g2) # << >> THEN Strip(m.g2) ELSE UNNAMED]

\* lines 196-200: group_info.update({...})
UpdateGroupInfo(group_info, date_label, m) ==
    [created_ts   |-> date_label,
     created_by   |-> Strip(m.g1),
     created_name |-> IF Strip(m.g2) # << >> THEN Strip(m.g2) ELSE UNNAMED]

\* lines 205-209: group_renames after a line that RE_GROUP_RENAME matches
AppendRename(group_renames, m, has_jdatetime) ==
    LET dt_rename == parse_timestamp(Strip(m.ts_raw))
    IN  IF dt_rename # NoneDt
        THEN Append(group_renames,
                    <<format_jalali_date(dt_rename, has_jdatetime).label,
                      Strip(m.changer), Strip(m.old_name), Strip(m.new_name)>>)
        ELSE group_renames

\* ------------------------------------------------------------------------
\* The inputs: the chat file, the word lists, the optional modules
\* ------------------------------------------------------------------------

\* the longest transcript
MaxLines == 2

\* 11/4/20, 9:53 AM - Alice: Hello world U+1F600
LINE_HELLO ==
    <<"1","1","/","4","/","2","0",","," ","9",":","5","3"," ","A","M"," ","-"," ","A","l","i","c","e",":"," ","H","e","l","l","o"," ","w","o","r","l","d"," ","U+1F600">>

\* 1/2/20, 21:05 - Alice: <Media omitted> U+2764
LINE_MEDIA ==
    <<"1","/","2","/","2","0",","," ","2","1",":","0","5"," ","-"," ","A","l","i","c","e",":"," ","<","M","e","d","i","a"," ","o","m","i","t","t","e","d",">"," ","U+2764">>

\* 13/4/20, 9:05 pm - Bob: bad This Message was deleted
LINE_DELETED ==
    <<"1","3","/","4","/","2","0",","," ","9",":","0","5"," ","p","m"," ","-"," ","B","o","b",":"," ","b","a","d"," ","T","h","i","s"," ","M","e","s","s","a","g","e"," ","w","a","s"," ","d","e","l","e","t","e","d">>

\* see you: there
LINE_CONTINUATION ==
    <<"s","e","e"," ","y","o","u",":"," ","t","h","e","r","e">>

\* 13/13/20, 9:53 - Bob: hi
LINE_BAD_TS ==
    <<"1","3","/","1","3","/","2","0",","," ","9",":","5","3"," ","-"," ","B","o","b",":"," ","h","i">>

\* 1/2/20, 21:05 - Bob created group "Fam"
LINE_CREATED ==
    <<"1","/","2","/","2","0",","," ","2","1",":","0","5"," ","-"," ","B","o","b"," ","c","r","e","a","t","e","d"," ","g","r","o","u","p"," ","\"","F","a","m","\"">>

\* 11/4/20, 9:53 AM - Eve Created this group 
LINE_CREATED_AGAIN ==
    <<"1","1","/","4","/","2","0",","," ","9",":","5","3"," ","A","M"," ","-"," ","E","v","e"," ","C","r","e","a","t","e","d"," ","t","h","i","s"," ","g","r","o","u","p"," ">>

\* 1/2/20, 21:05 -  : Bob created group "Fam"
LINE_EMPTY_SENDER_CREATED ==
    <<"1","/","2","/","2","0",","," ","2","1",":","0","5"," ","-"," "," ",":"," ","B","o","b"," ","c","r","e","a","t","e","d"," ","g","r","o","u","p"," ","\"","F","a","m","\"">>

\* 11/4/20, 9:53 AM - Bob changed the group name from "A" to "B"
LINE_RENAMED ==
    <<"1","1","/","4","/","2","0",","," ","9",":","5","3"," ","A","M"," ","-"," ","B","o","b"," ","c","h","a","n","g","e","d"," ","t","h","e"," ","g","r","o","u","p"," ","n","a","m","e"," ","f","r","o","m"," ","\"","A","\""," ","t","o"," ","\"","B","\"">>

\* 1/2/20, 21:05 - : Eve changed the group name from "A" to "B"
LINE_EMPTY_SENDER_RENAMED ==
    <<"1","/","2","/","2","0",","," ","2","1",":","0","5"," ","-"," ",":"," ","E","v","e"," ","c","h","a","n","g","e","d"," ","t","h","e"," ","g","r","o","u","p"," ","n","a","m","e"," ","f","r","o","m"," ","\"","A","\""," ","t","o"," ","\"","B","\"">>

\* 13/4/20, 9:05 pm - Eve left
LINE_LEFT ==
    <<"1","3","/","4","/","2","0",","," ","9",":","0","5"," ","p","m"," ","-"," ","E","v","e"," ","l","e","f","t">>

\* the lines a transcript is made of
Corpus ==
    {LINE_HELLO,
     LINE_MEDIA,
     LINE_DELETED,
     LINE_CONTINUATION,
     LINE_BAD_TS,
     LINE_CREATED,
     LINE_CREATED_AGAIN,
     LINE_EMPTY_SENDER_CREATED,
     LINE_RENAMED,
     LINE_EMPTY_SENDER_RENAMED,
     LINE_LEFT}

Transcripts == UNION {[1..n -> Corpus] : n \in 0..MaxLines}

\* the contents bad_words.txt may have: absent or empty, or the word "bad"
BadWordLists == {{}, {<<"b", "a", "d">>}}

\* the contents stop_words.txt may have: absent or empty, or the word "hello"
StopWordLists == {{}, {<<"h", "e", "l", "l", "o">>}}

\* ------------------------------------------------------------------------
\* State
\* ------------------------------------------------------------------------

VARIABLES
    lines,              \* CHAT_FILE.read_text().splitlines()
    bad_words,          \* the set loaded from bad_words.txt
    stop_words,         \* the set loaded from stop_words.txt
    jdatetime,          \* TRUE when the jdatetime module was imported
    emoji,              \* TRUE when the emoji module was imported
    idx,                \* the position of the main loop in lines
    pc,                 \* "loop" until the report is printed, then "done"
    user_stats,
    hour_counts,
    weekday_counts,
    month_counts,
    word_freq_global,
    emoji_freq_global,
    media_per_day,
    messages_per_day,
    group_info,
    group_renames,
    report              \* what the reporting section printed

inputs == <<lines, bad_words, stop_words, jdatetime, emoji>>

histograms == <<hour_counts, weekday_counts, month_counts>>

user_vars == <<user_stats, word_freq_global, emoji_freq_global, media_per_day>>

group_vars == <<group_info, group_renames>>

vars == <<inputs, idx, pc, histograms, messages_per_day, user_vars, group_vars, report>>

Init ==
    /\ lines \in Transcripts
    /\ bad_words \in BadWordLists
    /\ stop_words \in StopWordLists
    /\ jdatetime \in BOOLEAN
    /\ emoji \in BOOLEAN
    /\ idx = 1
    /\ pc = "loop"
    /\ user_stats = << >>
    /\ hour_counts = << >>
    /\ weekday_counts = << >>
    /\ month_counts = << >>
    /\ word_freq_global = << >>
    /\ emoji_freq_global = << >>
    /\ media_per_day = << >>
    /\ messages_per_day = << >>
    /\ group_info = NoGroupInfo
    /\ group_renames = << >>
    /\ report = [printed |-> FALSE]

\* ------------------------------------------------------------------------
\* The main loop (lines 143-210): one iteration
\* ------------------------------------------------------------------------

\* line 152: hour_counts[dt.hour] += 1
AddHour(counts, dt) == Inc(counts, Hour(dt))

\* AddWeekday with "= 1" for "+= 1"
AddWeekdayOverwrites(counts, weekday_idx) == Put(counts, weekday_idx, 1)

\* line 153: weekday_counts[weekday_idx] += 1
AddWeekday(counts, weekday_idx) == Inc(counts, weekday_idx)

\* line 154: month_counts[month_num] += 1
AddMonth(counts, month_num) == Inc(counts, month_num)

\* AddDay left out
AddDayForgotten(per_day, date_label) == per_day

\* line 155: messages_per_day[date_label] += 1
AddDay(per_day, date_label) == Inc(per_day, date_label)

\* lines 157-191: the user-message branch, for a sender that is not empty
UserMessage(sender, message, dt, date_label) ==
    /\ user_stats' = Put(user_stats, sender,
                         UpdateUserStats(UserStatsOf(user_stats, sender), dt,
                                         message, bad_words))
    /\ media_per_day' = IF IsMedia(message)
                        THEN Inc(media_per_day, date_label)
                        ELSE media_per_day
    /\ word_freq_global' = CounterUpdate(word_freq_global, Words(message, stop_words))
    /\ emoji_freq_global' = CounterUpdate(emoji_freq_global, EmojiList(message, emoji))
    /\ UNCHANGED group_vars

\* lines 193-210: the system-message branch
SystemMessage(raw, content, date_label) ==
    /\ LET created == RE_CREATED_match(content)
           renamed == RE_GROUP_RENAME_match(raw)
       IN  IF created.ok
           THEN /\ group_info' = UpdateGroupInfo(group_info, date_label, created)
                /\ UNCHANGED group_renames
           ELSE IF renamed.ok
           THEN /\ group_renames' = AppendRename(group_renames, renamed, jdatetime)
                /\ UNCHANGED group_info
           ELSE UNCHANGED group_vars
    /\ UNCHANGED user_vars

\* lines 151-210: a line whose timestamp parsed
Classified(raw, content, dt) ==
    LET f == format_jalali_date(dt, jdatetime)
    IN  /\ hour_counts' = AddHour(hour_counts, dt)
        /\ weekday_counts' = AddWeekday(weekday_counts, f.weekday)
        /\ month_counts' = AddMonth(month_counts, f.month)
        /\ messages_per_day' = AddDay(messages_per_day, f.label)
        /\ IF HasColon(content)
           THEN LET sender  == Strip(SplitHead(content, COLON))
                    message == Strip(SplitTail(content, COLON))
                IN  IF EmptySenderSkips(sender)
                    THEN UNCHANGED <<user_vars, group_vars>>
                    ELSE UserMessage(sender, message, dt, f.label)
           ELSE SystemMessage(raw, content, f.label)

LoopBody ==
    /\ pc = "loop"
    /\ idx <= Len(lines)
    /\ idx' = idx + 1
    /\ LET raw == lines[idx]
       IN  IF ~HasSeparator(raw)
           THEN UNCHANGED <<histograms, messages_per_day, user_vars, group_vars>>
           ELSE LET ts_part == SplitHead(raw, SEP)
                    content == SplitTail(raw, SEP)
                    dt      == parse_timestamp(ts_part)
                IN  IF dt = NoneDt
                    THEN UNCHANGED <<histograms, messages_per_day, user_vars, group_vars>>
                    ELSE Classified(raw, content, dt)
    /\ UNCHANGED <<inputs, pc, report>>

\* ------------------------------------------------------------------------
\* Reporting (lines 212-275)
\* ------------------------------------------------------------------------

\* s without its i-th element
RemoveAt(s, i) == SubSeq(s, 1, i - 1) \o SubSeq(s, i + 1, Len(s))

\* the first position of a largest / smallest key
FirstMaxIdx(keys) ==
    CHOOSE i \in DOMAIN keys :
        /\ \A j \in DOMAIN keys : keys[j] <= keys[i]
        /\ \A j \in 1..(i - 1) : keys[j] < keys[i]

FirstMinIdx(keys) ==
    CHOOSE i \in DOMAIN keys :
        /\ \A j \in DOMAIN keys : keys[j] >= keys[i]
        /\ \A j \in 1..(i - 1) : keys[j] > keys[i]

\* sorted(items, key=..., reverse=True): stable, keys[i] being the key of items[i]
RECURSIVE SortedDesc(_, _)
SortedDesc(items, keys) ==
    IF items = << >> THEN << >>
    ELSE LET i == FirstMaxIdx(keys)
         IN  <<items[i]>> \o SortedDesc(RemoveAt(items, i), RemoveAt(keys, i))

\* the values of a dict, in its order
Values(d) == [i \in DOMAIN d |-> d[i][2]]

\* Counter.most_common(n)
MostCommon(c, n) ==
    LET s == SortedDesc(c, Values(c))
    IN  SubSeq(s, 1, IF Len(s) < n THEN Len(s) ELSE n)

\* a / b of Python: the exact quotient, or ZeroDivisionError
ZeroDivisionError == <<"ZeroDivisionError">>

TrueDiv(a, b) == IF b = 0 THEN ZeroDivisionError ELSE <<a, b>>

\* lines 218-219: "if d["messages"] else 0"
AvgGuard(messages) == messages # 0

\* StatsGuard without the test
StatsGuardMissing(total_msgs) == TRUE

\* line 237: "if total_msgs:"
StatsGuard(total_msgs) == total_msgs # 0

\* lines 93-95: the Persian weekday names, Saturday first (transliterated)
FA_WEEKDAYS ==
    <<"shanbe", "yekshanbe", "doshanbe", "seshanbe", "chaharshanbe", "panjshanbe", "jome">>

\* line 257: the list the Gregorian fallback indexes
EN_WEEKDAYS == <<"Mon", "Tue", "Wed", "Thu", "Fri", "Sat", "Sun">>

\* line 257: the name printed next to weekday bucket i (0-6)
WeekdayName(i, has_jdatetime) ==
    IF has_jdatetime THEN FA_WEEKDAYS[i + 1] ELSE EN_WEEKDAYS[((i + 1) % 7) + 1]

\* lines 217-220: the rows of the user summary
UserRows ==
    LET sorted == SortedDesc(user_stats, [i \in DOMAIN user_stats |-> user_stats[i][2].messages])
    IN  [i \in DOMAIN sorted |->
            LET d == sorted[i][2]
            IN  [user     |-> SubSeq(sorted[i][1], 1,
                                     IF Len(sorted[i][1]) < 22 THEN Len(sorted[i][1]) ELSE 22),
                 messages |-> d.messages,
                 media    |-> d.media,
                 deleted  |-> d.deleted,
                 bad_word |-> d.bad_word,
                 avg_c    |-> IF AvgGuard(d.messages) THEN TrueDiv(d.char_sum, d.messages) ELSE <<0, 1>>,
                 avg_w    |-> IF AvgGuard(d.messages) THEN TrueDiv(d.word_sum, d.messages) ELSE <<0, 1>>]]

\* lines 236-247: the overall message stats; error is the exception that
\* max() / min() of an empty dict or the division raises
OverallStats ==
    LET total_msgs == SumValues(hour_counts)
    IN  IF ~StatsGuard(total_msgs)
        THEN [printed |-> FALSE, error |-> "none"]
        ELSE IF messages_per_day = << >>
        THEN [printed |-> FALSE, error |-> "ValueError"]
        ELSE LET most_media == IF media_per_day # << >>
                               THEN media_per_day[FirstMaxIdx(Values(media_per_day))]
                               ELSE <<<<"-">>, 0>>
                 max_day    == messages_per_day[FirstMaxIdx(Values(messages_per_day))]
                 min_day    == messages_per_day[FirstMinIdx(Values(messages_per_day))]
             IN  [printed     |-> TRUE,
                  error       |-> "none",
                  total_msgs  |-> total_msgs,
                  most_media  |-> most_media,
                  max_day     |-> max_day,
                  min_day     |-> min_day,
                  avg_per_day |-> TrueDiv(total_msgs, Len(messages_per_day))]

\* the exception that ends the report early, "none" when it runs to its end
ReportError ==
    IF \E i \in DOMAIN UserRows :
           ZeroDivisionError \in {UserRows[i].avg_c, UserRows[i].avg_w}
    THEN "ZeroDivisionError"
    ELSE OverallStats.error

Report ==
    /\ pc = "loop"
    /\ idx > Len(lines)
    /\ pc' = "done"
    /\ report' =
         [printed    |-> TRUE,
          error      |-> ReportError,
          rows       |-> UserRows,
          created    |-> IF group_info.created_ts # NoneStr /\ group_info.created_ts # << >>
                         THEN <<group_info.created_ts, group_info.created_by,
                                group_info.created_name>>
                         ELSE << >>,
          renames    |-> group_renames,
          no_renames |-> group_renames = << >>,
          stats      |-> OverallStats,
          \* the sections after the stats are reached only without an exception
          hourly     |-> IF ReportError # "none" THEN << >>
                         ELSE [h \in 1..24 |-> Count(hour_counts, h - 1)],
          weekdays   |-> IF ReportError # "none" THEN << >>
                         ELSE [i \in 1..7 |-> <<WeekdayName(i - 1, jdatetime),
                                                Count(weekday_counts, i - 1)>>],
          monthly    |-> IF ReportError # "none" THEN << >>
                         ELSE [m \in 1..12 |-> Count(month_counts, m)],
          top_words  |-> IF ReportError # "none" THEN << >>
                         ELSE MostCommon(word_freq_global, 20),
          top_emojis |-> IF ReportError # "none" THEN << >>
                         ELSE MostCommon(emoji_freq_global, 20)]
    /\ UNCHANGED <<inputs, idx, histograms, messages_per_day, user_vars, group_vars>>

Next == LoopBody \/ Report

Spec == Init /\ [][Next]_vars

\* ------------------------------------------------------------------------
\* What the properties speak of: the lines read so far and their kinds
\* ------------------------------------------------------------------------

\* the number of lines the loop has been through
Done == idx - 1

\* the timestamp of a line, NoneDt when it has no " - " or does not parse
TsOf == [l \in Corpus |->
            IF Contains(l, SEP) THEN parse_timestamp(SplitHead(l, SEP)) ELSE NoneDt]

\* the payload of a line: what follows the first " - "
PayloadOf == [l \in Corpus |-> IF Contains(l, SEP) THEN SplitTail(l, SEP) ELSE << >>]

\* the trimmed text before and after the first ":" of the payload
SenderOf == [l \in Corpus |->
                IF Contains(PayloadOf[l], COLON)
                THEN Strip(SplitHead(PayloadOf[l], COLON)) ELSE << >>]

BodyOf == [l \in Corpus |->
              IF Contains(PayloadOf[l], COLON)
              THEN Strip(SplitTail(PayloadOf[l], COLON)) ELSE << >>]

\* a line with the separator and a parseable timestamp
Parseable(l) == TsOf[l] # NoneDt

\* a line classified as a message of a user: ":" in the payload, sender not empty
IsUserLine(l) == Parseable(l) /\ Contains(PayloadOf[l], COLON) /\ SenderOf[l] # << >>

\* a line with ":" in the payload and nothing but blanks before it
IsEmptySenderLine(l) == Parseable(l) /\ Contains(PayloadOf[l], COLON) /\ SenderOf[l] = << >>

MatchesCreated == [l \in Corpus |-> RE_CREATED_match(PayloadOf[l]).ok]

MatchesRenamed == [l \in Corpus |-> RE_GROUP_RENAME_match(l).ok]

\* a line the loop takes as group-created: no ":" in the payload, pattern matches
IsCreatedLine(l) == Parseable(l) /\ ~Contains(PayloadOf[l], COLON) /\ MatchesCreated[l]

\* a line that is no user message and matches neither pattern
IsUnrecognizedLine(l) ==
    Parseable(l) /\ ~IsUserLine(l) /\ ~MatchesCreated[l] /\ ~MatchesRenamed[l]

\* the creation record a group-created line carries
CreatedRecordOf(l) ==
    LET m == RE_CREATED_match(PayloadOf[l])
    IN  [created_ts   |-> format_jalali_date(TsOf[l], jdatetime).label,
         created_by   |-> Strip(m.g1),
         created_name |-> IF Strip(m.g2) = << >> THEN UNNAMED ELSE Strip(m.g2)]

RECURSIVE SeqSum(_)
SeqSum(s) == IF s = << >> THEN 0 ELSE Head(s) + SeqSum(Tail(s))

SetMax(S) == CHOOSE x \in S : \A y \in S : y <= x

SetMin(S) == CHOOSE x \in S : \A y \in S : x <= y

\* the positions, among the lines read so far, of the messages of user u
MessagesOf(u) == {k \in 1..Done : IsUserLine(lines[k]) /\ SenderOf[lines[k]] = u}

CreatedLines == {k \in 1..Done : IsCreatedLine(lines[k])}

ALICE == <<"A", "l", "i", "c", "e">>

\* the loop is about to read line l
Reading(l) == pc = "loop" /\ idx <= Len(lines) /\ lines[idx] = l

\* ------------------------------------------------------------------------
\* Properties
\* ------------------------------------------------------------------------

\* C1: after every prefix of the transcript the hour, weekday and month
\* buckets each sum to the number of lines read so far that contain " - "
\* and whose timestamp part parsed.
C1_HistogramSums ==
    LET n == Cardinality({k \in 1..Done : Parseable(lines[k])})
    IN  /\ SumValues(hour_counts) = n
        /\ SumValues(weekday_counts) = n
        /\ SumValues(month_counts) = n

\* a finished run over a dropped line and a counted line
C1_Witness ==
    /\ pc = "done"
    /\ \E k \in 1..Done : ~Parseable(lines[k])
    /\ \E k \in 1..Done : Parseable(lines[k])
    /\ SumValues(weekday_counts) = Done - 1

\* C2 as stated: the creation record is that of the first group-created line
\* read so far, whatever group-created lines follow it.
C2_FirstCreatedWins ==
    group_info = IF CreatedLines = {} THEN NoGroupInfo
                 ELSE CreatedRecordOf(lines[SetMin(CreatedLines)])

\* C2 (amended): every group-created line overwrites the creation record, so
\* after every prefix the record is that of the last group-created line read
\* (and the initial empty record when there was none).
C2_LastCreatedWins ==
    group_info = IF CreatedLines = {} THEN NoGroupInfo
                 ELSE CreatedRecordOf(lines[SetMax(CreatedLines)])

\* two different group-created lines were read; the record is the second's
C2_Witness ==
    /\ pc = "done"
    /\ Cardinality(CreatedLines) >= 2
    /\ CreatedRecordOf(lines[SetMin(CreatedLines)]) # CreatedRecordOf(lines[SetMax(CreatedLines)])
    /\ group_info = CreatedRecordOf(lines[SetMax(CreatedLines)])

\* C3 as stated: a line whose payload has ":" after an empty sender falls
\* through to the group-created and then the group-renamed pattern, so one
\* that matches sets the creation record or appends a rename record.
C3_EmptySenderFallsThrough ==
    [][\A l \in Corpus :
          (Reading(l) /\ IsEmptySenderLine(l)) =>
              /\ MatchesCreated[l] => group_info' = CreatedRecordOf(l)
              /\ (~MatchesCreated[l] /\ MatchesRenamed[l]) =>
                     Len(group_renames') = Len(group_renames) + 1]_vars

\* C3 (amended): a line with a parseable timestamp whose payload has ":"
\* after an empty sender is no user message and ends the iteration there:
\* neither pattern is tried, so the creation record, the rename sequence,
\* the user records and the word, emoji and media counters stay as they
\* were, also when the line matches one of the patterns.
C3_EmptySenderDropped ==
    [][\A l \in Corpus :
          (Reading(l) /\ IsEmptySenderLine(l)) =>
              /\ group_info' = group_info
              /\ group_renames' = group_renames
              /\ user_stats' = user_stats
              /\ <<word_freq_global, emoji_freq_global, media_per_day>>'
                     = <<word_freq_global, emoji_freq_global, media_per_day>>]_vars

\* an empty-sender line that matches the group-created pattern, and one that
\* matches the group-renamed pattern, were read and left no record
C3_Witness ==
    /\ Done = 2
    /\ IsEmptySenderLine(lines[1]) /\ MatchesCreated[lines[1]]
    /\ IsEmptySenderLine(lines[2]) /\ ~MatchesCreated[lines[2]] /\ MatchesRenamed[lines[2]]
    /\ group_info = NoGroupInfo
    /\ group_renames = << >>
    /\ SumValues(hour_counts) = 2

\* the weekday a line is dated on, Monday = 0 (datetime.weekday())
WeekdayOfLine(l) == PyWeekday(TsOf[l])

\* C4: without jdatetime the lines dated on weekday w are counted in bucket
\* (w + 2) mod 7, and the report prints next to bucket i the name of the
\* weekday whose lines bucket i counts (bucket 0 Saturday, ..., 6 Friday).
C4_WeekdayLabelsMatchBuckets ==
    (pc = "done" /\ ~jdatetime) =>
        \A w \in 0..6 :
            LET i == (w + 2) % 7
            IN  /\ Count(weekday_counts, i)
                     = Cardinality({k \in 1..Done : Parseable(lines[k])
                                                     /\ WeekdayOfLine(lines[k]) = w})
                /\ report.weekdays[i + 1] = <<EN_WEEKDAYS[w + 1], Count(weekday_counts, i)>>

\* C4, its first half alone: the bucket of weekday w is (w + 2) mod 7
C4_BucketOfWeekday ==
    ~jdatetime =>
        \A w \in 0..6 :
            Count(weekday_counts, (w + 2) % 7)
                = Cardinality({k \in 1..Done : Parseable(lines[k])
                                                /\ WeekdayOfLine(lines[k]) = w})

\* the state after the loop read LINE_HELLO as the first line
ReadHello == idx = 2 /\ lines[1] = LINE_HELLO

\* what C5 says of that state, but for the two sums
HelloCounted(char_sum, word_sum) ==
    /\ Keys(user_stats) = {ALICE}
    /\ Get(user_stats, ALICE).messages = 1
    /\ Get(user_stats, ALICE).char_sum = char_sum
    /\ Get(user_stats, ALICE).word_sum = word_sum
    /\ Get(user_stats, ALICE).media = 0
    /\ Get(user_stats, ALICE).deleted = 0
    /\ emoji_freq_global = <<<<"U+1F600", 1>>>>
    /\ hour_counts = <<<<9, 1>>>>

\* C5 as stated: the line "11/4/20, 9:53 AM - Alice: Hello world U+1F600",
\* read from a fresh state, is a message of Alice that adds 1 to her
\* messages, 11 to her char_sum and 2 to her word_sum, counts the emoji once
\* and hour 9 once, and is neither media nor deleted.
C5_HelloAs11CharsAnd2Words == ReadHello => HelloCounted(11, 2)

\* C5 (amended): the same, with 13 added to char_sum and 3 to word_sum: the
\* body is "Hello world U+1F600", and the emoji and the blank before it are
\* characters, the emoji a word of its own.
C5_HelloAs13CharsAnd3Words == ReadHello => HelloCounted(13, 3)

C5_Witness == ReadHello /\ HasKey(user_stats, ALICE) /\ SumValues(emoji_freq_global) = 1

\* the buckets of counter c1 are those of c, with one more in bucket key
OneMoreIn(c1, c, key) ==
    /\ Keys(c1) = Keys(c) \cup {key}
    /\ \A k \in Keys(c1) : Count(c1, k) = Count(c, k) + (IF k = key THEN 1 ELSE 0)

\* what C6 and its amendment share: the three histograms grow by one in the
\* bucket of the line, and users, group data, words, emoji and media stay
UnrecognizedCountsIn(l) ==
    /\ OneMoreIn(hour_counts', hour_counts, Hour(TsOf[l]))
    /\ OneMoreIn(weekday_counts', weekday_counts, (PyWeekday(TsOf[l]) + 2) % 7)
    /\ OneMoreIn(month_counts', month_counts, format_jalali_date(TsOf[l], jdatetime).month)
    /\ media_per_day' = media_per_day
    /\ user_stats' = user_stats
    /\ group_info' = group_info
    /\ group_renames' = group_renames
    /\ word_freq_global' = word_freq_global
    /\ emoji_freq_global' = emoji_freq_global

\* C6 as stated: an unrecognized line with a parseable timestamp changes the
\* hour, weekday and month histograms by one each and nothing else, the
\* per-day message count included.
C6_UnrecognizedOnlyHistograms ==
    [][\A l \in Corpus :
          (Reading(l) /\ IsUnrecognizedLine(l)) =>
              (UnrecognizedCountsIn(l) /\ messages_per_day' = messages_per_day)]_vars

\* C6 (amended): such a line changes the hour, weekday and month histograms
\* by one each and adds one to the per-day message count of its date label;
\* the per-day media count, every user record, the creation record, the
\* rename sequence and the word and emoji frequencies stay unchanged.
C6_UnrecognizedCountsDay ==
    [][\A l \in Corpus :
          (Reading(l) /\ IsUnrecognizedLine(l)) =>
              /\ UnrecognizedCountsIn(l)
              /\ OneMoreIn(messages_per_day', messages_per_day,
                           format_jalali_date(TsOf[l], jdatetime).label)]_vars

\* an unrecognized line was read after a message of the same day
C6_Witness ==
    /\ Done = 2
    /\ IsUserLine(lines[1])
    /\ IsUnrecognizedLine(lines[2])
    /\ Len(messages_per_day) = 1
    /\ SumValues(messages_per_day) = 2
    /\ Get(user_stats, SenderOf[lines[1]]).messages = 1

\* C7: after every prefix there is a user record exactly for the senders of
\* the lines classified as user messages; its message count is the number
\* of the user's lines and its char_sum and word_sum add the length and the
\* word count of the body of each of them once.
C7_UserCounts ==
    /\ Keys(user_stats) = {SenderOf[lines[k]] : k \in {j \in 1..Done : IsUserLine(lines[j])}}
    /\ \A u \in Keys(user_stats) :
          LET mine == [k \in 1..Done |-> k \in MessagesOf(u)]
          IN  /\ Get(user_stats, u).messages = Cardinality(MessagesOf(u))
              /\ Get(user_stats, u).char_sum
                   = SeqSum([k \in 1..Done |-> IF mine[k] THEN Len(BodyOf[lines[k]]) ELSE 0])
              /\ Get(user_stats, u).word_sum
                   = SeqSum([k \in 1..Done |->
                               IF mine[k] THEN Len(SplitWs(BodyOf[lines[k]])) ELSE 0])

\* a user with two messages, among lines of other kinds
C7_Witness ==
    /\ pc = "done"
    /\ \E u \in Keys(user_stats) : Get(user_stats, u).messages = 2
    /\ Len(user_stats) = 1

\* C8: for every user, first_ts is the timestamp of the user's first message
\* in transcript order and last_ts that of the last one, whatever the
\* timestamps are.
C8_FirstLastInTranscriptOrder ==
    \A u \in Keys(user_stats) :
        /\ MessagesOf(u) # {}
        /\ Get(user_stats, u).first_ts = TsOf[lines[SetMin(MessagesOf(u))]]
        /\ Get(user_stats, u).last_ts = TsOf[lines[SetMax(MessagesOf(u))]]

\* a user whose first_ts is later than the last_ts
C8_Witness ==
    \E u \in Keys(user_stats) :
        DtLess(Get(user_stats, u).last_ts, Get(user_stats, u).first_ts)

\* C9: when no line has both the separator and a parseable timestamp, the
\* report runs to its end without an exception: 24 hour, 7 weekday and 12
\* month buckets are printed as 0, "No renames detected." is printed, and
\* the overall stats, with their division by the number of days, are not
\* evaluated.
C9_EmptyReport ==
    (pc = "done" /\ \A k \in 1..Len(lines) : ~Parseable(lines[k])) =>
        /\ report.error = "none"
        /\ report.hourly = [h \in 1..24 |-> 0]
        /\ Len(report.weekdays) = 7
        /\ \A i \in 1..7 : report.weekdays[i][2] = 0
        /\ report.monthly = [m \in 1..12 |-> 0]
        /\ report.no_renames
        /\ ~report.stats.printed

\* the report of a transcript of dropped lines only
C9_Witness ==
    /\ pc = "done"
    /\ Len(lines) >= 2
    /\ \A k \in 1..Len(lines) : ~Parseable(lines[k])
    /\ \E k \in 1..Len(lines) : Contains(lines[k], SEP)
    /\ \E k \in 1..Len(lines) : ~Contains(lines[k], SEP)

\* the media counts of all users together
TotalUserMedia == SeqSum([i \in DOMAIN user_stats |-> user_stats[i][2].media])

\* C10: every user record has at least one message (so no average of the
\* user summary divides by zero), no more media, deleted or bad-word hits
\* than messages, and the per-day media counts sum to the users' media counts.
C10_UserRecordBounds ==
    /\ pc = "done" => report.error # "ZeroDivisionError"
    /\ \A i \in DOMAIN user_stats :
          LET s == user_stats[i][2]
          IN  /\ s.messages >= 1
              /\ s.media <= s.messages
              /\ s.deleted <= s.messages
              /\ s.bad_word <= s.messages
    /\ SumValues(media_per_day) = TotalUserMedia

\* two users, one with a media message, one with a deleted bad-word message
C10_Witness ==
    /\ Len(user_stats) = 2
    /\ TotalUserMedia = 1
    /\ SumValues(media_per_day) = 1
    /\ \E i \in DOMAIN user_stats :
          user_stats[i][2].deleted = 1 /\ user_stats[i][2].bad_word = 1

====
